---- MODULE Spec2Model ----
(***************************************************************************)
(* The HTTP client wrappers of templates/web (SyncHttpClient in            *)
(* request_sync.py, AsyncHttpClient in request_async.py): construction,    *)
(* the request loop of _request with its retries and delays, the header    *)
(* merge, the choice of the connection object, close(), and the target     *)
(* resolution of _full_url.                                                *)
(*                                                                         *)
(* Strings that the code inspects character by character (URLs) are        *)
(* sequences of one-character strings.  Python dicts are objects on a heap *)
(* (a reference and the mapping it holds), so that aliasing is visible.    *)
(* One client object exists per behaviour; `variant` says which class it   *)
(* is.  The transport (requests / httpx) is the environment: each attempt  *)
(* gets one of Results.                                                    *)
(***************************************************************************)
EXTENDS Integers, Sequences, FiniteSets, TLC

VARIABLES
    variant,         \* "sync": SyncHttpClient, "async": AsyncHttpClient
    ctor_args,       \* the arguments the constructor was called with
    base_url,        \* self.base_url
    default_headers, \* self.default_headers: a reference into heap
    retry,           \* self.retry
    retry_delay,     \* self.retry_delay
    use_session,     \* self.use_session
    session,         \* self.session / self.client: "None", "open", "closed"
    heap,            \* dict objects: reference -> mapping
    calls,           \* per caller: the activation of _request it runs
    ncloses,         \* how many times close() has been invoked
    url,             \* the argument of the last _full_url(url)
    full_url,        \* the value the last _full_url(url) returned
    loggers,         \* the LogHandler objects made so far, in order
    construction,    \* how the last LogHandler(...) ended
    records,         \* the records given to a logger or an adapter, in order
    wrapper,         \* the last call of a function decorated with catch
    singleton_logger,\* AdvancedLogHandler._singleton_logger: 0 is None
    adapters,        \* the AdvancedLogHandler constructions, in order
    ctors,           \* where each thread is in AdvancedLogHandler.__init__
    script,          \* what a scripted transport gives attempt 1, 2, ...
    run_sync,        \* the call of the sync client against the script
    run_async        \* the call of the async client against the script

httpvars == <<variant, ctor_args, base_url, default_headers, retry, retry_delay,
              use_session, session, heap, calls, ncloses, url, full_url>>

logvars ==
    <<loggers, construction, records, wrapper, singleton_logger, adapters,
      ctors>>

runvars == <<script, run_sync, run_async>>

vars == <<httpvars, logvars, runvars>>

config == <<variant, ctor_args, base_url, default_headers, retry, retry_delay,
            use_session>>

(***************************************************************************)
(* Bounds of the model.                                                    *)
(***************************************************************************)
MaxRetry == 2

MaxCloses == 1

Tasks == {1, 2}

RetryDelays == {1, 2}

Retries == (-1) .. MaxRetry

(***************************************************************************)
(* Python values.                                                          *)
(***************************************************************************)
None == 0

EmptyDict == [k \in {} |-> ""]

DefaultRef == 0

Truthy(d) == DOMAIN d # {}

(***************************************************************************)
(* What the transport can give one attempt: a transport-level error (no    *)
(* response), or a response with a status code.                            *)
(***************************************************************************)
OkCodes == {200}

ErrorCodes == {404, 503}

TransportError == [kind |-> "transport", status |-> None]

Response(code) == [kind |-> "response", status |-> code]

Results == {TransportError} \cup {Response(c) : c \in OkCodes \cup ErrorCodes}

NoResult == [kind |-> "none", status |-> None]

(***************************************************************************)
(* Header mappings offered to the constructor and to a call.               *)
(***************************************************************************)
DefaultHeaderChoices ==
    { EmptyDict, [k \in {"User-Agent"} |-> "MyApp/1.0"] }

CallHeaderChoices ==
    { EmptyDict,
      [k \in {"User-Agent", "Accept"} |-> IF k = "Accept" THEN "json" ELSE "curl"] }

(***************************************************************************)
(* str.startswith, str.rstrip(c), str.lstrip(c) on character sequences.    *)
(***************************************************************************)
StartsWith(s, p) == Len(s) >= Len(p) /\ SubSeq(s, 1, Len(p)) = p

RECURSIVE RStrip(_, _)
RStrip(s, c) ==
    IF s # <<>> /\ s[Len(s)] = c THEN RStrip(SubSeq(s, 1, Len(s) - 1), c) ELSE s

RECURSIVE LStrip(_, _)
LStrip(s, c) ==
    IF s # <<>> /\ s[1] = c THEN LStrip(Tail(s), c) ELSE s

HttpPrefix == <<"h", "t", "t", "p">>

(***************************************************************************)
(* _full_url: url if url.startswith("http")                                *)
(*            else f"{self.base_url}/{url.lstrip('/')}"                    *)
(***************************************************************************)
FullUrl(base, u) ==
    IF StartsWith(u, HttpPrefix) THEN u ELSE base \o <<"/">> \o LStrip(u, "/")

(***************************************************************************)
(* The header merge of _request: all_headers = self.default_headers.copy() *)
(* gives a new dict object (DictCopy is the reference all_headers holds),  *)
(* and all_headers.update(headers) writes the per-call entries over it.    *)
(***************************************************************************)
\* Faulty variant: no copy is made, all_headers is the defaults dict itself.
DictCopyAliased(src, fresh) == src

DictCopy(src, fresh) == fresh

DictUpdate(d, h) ==
    [k \in DOMAIN d \cup DOMAIN h |-> IF k \in DOMAIN h THEN h[k] ELSE d[k]]

(***************************************************************************)
(* The loop "for attempt in range(1, self.retry + 2)".                     *)
(***************************************************************************)
InRange(a, n) == a >= 1 /\ a < n + 2

(***************************************************************************)
(* requester = self.session if self.session else requests (sync);          *)
(* if self.client: ... else: async with httpx.AsyncClient(...) (async).    *)
(* The module-level request and the async with block both work on a        *)
(* connection context of their own that lives for the one request.         *)
(***************************************************************************)
\* Faulty variant: the session is never picked.
RequesterAlwaysTemp(s) == "temp"

Requester(s) == IF s # "None" THEN "session" ELSE "temp"

(***************************************************************************)
(* response.raise_for_status(): raises for a 4xx/5xx status.               *)
(***************************************************************************)
RaisesForStatus(r) == r.kind = "response" /\ r.status >= 400

Failed(r) == r.kind = "transport" \/ RaisesForStatus(r)

(***************************************************************************)
(* The except clause.  Sync: requests.exceptions.RequestException, which   *)
(* both the transport errors and the HTTPError of raise_for_status are.    *)
(* Async: httpx.RequestError, which the transport errors are and the       *)
(* HTTPStatusError of raise_for_status is not.                             *)
(***************************************************************************)
Caught(v, r) ==
    IF v = "sync" THEN Failed(r) ELSE r.kind = "transport"

(***************************************************************************)
(* "if attempt < self.retry + 1: sleep ... else: return {...}"             *)
(***************************************************************************)
\* Faulty variant: the comparison is against self.retry.
SleepsAfterOffByOne(a, n) == a < n

SleepsAfter(a, n) == a < n + 1

(***************************************************************************)
(* time.sleep(self.retry_delay) / await asyncio.sleep(self.retry_delay)    *)
(***************************************************************************)
\* Faulty variant: the delay grows with the attempt number.
SleepDurationBackoff(d, a) == d * a

SleepDuration(d, a) == d

(***************************************************************************)
(* The returned dicts.  str(e) is modelled by the exception's class.       *)
(***************************************************************************)
ErrorText(r) == IF r.kind = "transport" THEN "ConnectionError" ELSE "HTTPError"

Pending ==
    [kind |-> "pending", success |-> FALSE, status_code |-> None,
     data |-> "", error |-> ""]

ReturnedNone ==
    [kind |-> "None", success |-> FALSE, status_code |-> None,
     data |-> "", error |-> ""]

\* Faulty variant: the response's status code is not handed on.
SuccessOutcomeNoStatus(r) ==
    [kind |-> "dict", success |-> TRUE, status_code |-> None,
     data |-> "body", error |-> ""]

SuccessOutcome(r) ==
    [kind |-> "dict", success |-> TRUE, status_code |-> r.status,
     data |-> "body", error |-> ""]

\* Faulty variant: the failed response's status code is not handed on.
FailureStatusDropped(v, r) == None

FailureStatus(v, r) ==
    IF v = "sync" /\ r.kind = "response" THEN r.status ELSE None

FailureOutcome(v, r) ==
    [kind |-> "dict", success |-> FALSE, status_code |-> FailureStatus(v, r),
     data |-> "", error |-> ErrorText(r)]

Propagated(r) ==
    [kind |-> "exception", success |-> FALSE, status_code |-> None,
     data |-> "", error |-> "HTTPStatusError"]

(***************************************************************************)
(* close(): "if self.session: self.session.close()"                        *)
(***************************************************************************)
\* Faulty variant: close() leaves the session as it is.
SessionCloseForgotten(s) == s

SessionClose(s) == IF s # "None" THEN "closed" ELSE s

(***************************************************************************)
(* URLs and base URLs offered to the clients.                              *)
(***************************************************************************)
ExampleCom ==
    <<"h", "t", "t", "p", "s", ":", "/", "/",
      "e", "x", "a", "m", "p", "l", "e", ".", "c", "o", "m">>

HostA == <<"h", "t", "t", "p", ":", "/", "/", "a">>

Slash == <<"/">>

Get == <<"g", "e", "t">>

BaseUrls ==
    { <<>>, Slash, ExampleCom, ExampleCom \o Slash, ExampleCom \o Slash \o Slash,
      HostA, HostA \o Slash, HostA \o <<"/", "v", "1">>,
      HostA \o <<"/", "v", "1", "/">> }

Urls ==
    { <<>>, Slash, Get, Slash \o Get, Slash \o Slash \o Get, Get \o Slash,
      <<"a", "/", "b">>, <<"h">>, <<"h", "t", "m", "l">>,
      HttpPrefix \o <<"b", "i", "n">>, HttpPrefix \o <<"b", "i", "n", "/">> \o Get,
      HttpPrefix \o <<"/", "2">>, HttpPrefix,
      HostA, HostA \o Slash \o Get, ExampleCom \o Slash \o Get,
      <<"h", "t", "t", "p", "s", ":", "/", "/", "b">> }

CallUrls == { Slash \o Get, HostA \o Slash \o Get }

(***************************************************************************)
(* The activation of _request a caller runs.                               *)
(***************************************************************************)
NoRef == -1

IdleCall ==
    [pc |-> "idle", headers |-> EmptyDict, all_headers |-> NoRef,
     full_url |-> <<>>, attempt |-> 0, conn |-> "none", opened |-> 0,
     open |-> 0, trace |-> <<>>, ret |-> Pending]

AttemptEvent(c, r) ==
    [kind |-> "attempt", attempt |-> c.attempt, result |-> r,
     url |-> c.full_url, headers |-> heap[c.all_headers],
     requester |-> c.conn, delay |-> 0]

DelayEvent(c) ==
    [kind |-> "delay", attempt |-> c.attempt, result |-> NoResult,
     url |-> <<>>, headers |-> EmptyDict, requester |-> "none",
     delay |-> SleepDuration(retry_delay, c.attempt)]

Active(c) == c.pc \in {"request", "sleep"}

Finished(c) == c.pc \in {"returned", "raised"}

\* The request of attempt a goes out on the requester chosen now; a context
\* of its own is opened for it when there is no session.
Issue(c, a) ==
    LET r == Requester(session)
        n == IF r = "temp" THEN 1 ELSE 0
    IN  [c EXCEPT !.pc = "request", !.attempt = a, !.conn = r,
                  !.opened = c.opened + n, !.open = c.open + n]

\* The head of the for loop: the next attempt, or the end of the function
\* body (a Python function that falls off its end returns None).
EnterLoop(c, a) ==
    IF InRange(a, retry) THEN Issue(c, a)
    ELSE [c EXCEPT !.pc = "returned", !.ret = ReturnedNone]

(***************************************************************************)
(* The logging module before anything of it is used, and no scripted run.  *)
(***************************************************************************)
NoWrapper ==
    [pc |-> "none", logger |-> 0, level |-> 0, reraise |-> FALSE,
     on_error |-> "absent", func_raises |-> FALSE, events |-> <<>>,
     propagated |-> "none", result |-> "no return"]

Threads == {1, 2}

IdleCtor == [pc |-> "idle", args |-> 0, level |-> 0, made |-> 0]

NoLogging ==
    /\ ctors = [t \in Threads |-> IdleCtor]
    /\ loggers = <<>>
    /\ construction = "none"
    /\ records = <<>>
    /\ wrapper = NoWrapper
    /\ singleton_logger = 0
    /\ adapters = <<>>

NoRun == [attempts |-> 0, delays |-> <<>>, pc |-> "idle", ret |-> Pending]

NoRuns ==
    /\ script = <<>>
    /\ run_sync = NoRun
    /\ run_async = NoRun

(***************************************************************************)
(* Construction.                                                           *)
(***************************************************************************)
Construct(v, args, n, d, u) ==
    /\ variant = v
    /\ ctor_args = args
    /\ base_url = RStrip(args.base_url, "/")
    /\ default_headers = DefaultRef
    /\ retry = n
    /\ retry_delay = d
    /\ use_session = u
    /\ session = (IF u THEN "open" ELSE "None")
    /\ heap = [r \in {DefaultRef} \cup Tasks |->
                  IF r = DefaultRef THEN args.default_headers ELSE EmptyDict]
    /\ calls = [t \in Tasks |-> IdleCall]
    /\ ncloses = 0
    /\ url = <<>>
    /\ full_url = <<>>

Init ==
    \E v \in {"sync", "async"}, h \in DefaultHeaderChoices, n \in Retries,
       d \in RetryDelays, u \in BOOLEAN :
        /\ Construct(v, [base_url |-> ExampleCom \o Slash, default_headers |-> h],
                     n, d, u)
        /\ NoLogging
        /\ NoRuns

(***************************************************************************)
(* get / post / put / delete -> _request, up to the first request going    *)
(* out.  A blocking call occupies its thread, and callers of one sync      *)
(* client take turns (a call starts when the results of the earlier ones   *)
(* are taken); calls on the async client interleave at the awaits.         *)
(* No call is started after close().                                       *)
(***************************************************************************)
\* Faulty variant: a sync call would give the thread back while it waits.
BlockingNever(v) == FALSE

\* requests.request / session.request and time.sleep keep the calling
\* thread until they return; await client.request and await asyncio.sleep
\* give control back to the event loop.
Blocking(v) == v = "sync"

Call(t, u, h) ==
    /\ calls[t].pc = "idle"
    /\ ncloses = 0
    /\ Blocking(variant) => \A o \in Tasks : calls[o].pc = "idle"
    /\ LET ref   == DictCopy(default_headers, t)
           heap1 == [heap EXCEPT ![ref] = heap[default_headers]]
           heap2 == IF Truthy(h)
                    THEN [heap1 EXCEPT ![ref] = DictUpdate(heap1[ref], h)]
                    ELSE heap1
           c     == [IdleCall EXCEPT !.headers = h, !.all_headers = ref,
                                     !.full_url = FullUrl(base_url, u)]
       IN  /\ heap' = heap2
           /\ calls' = [calls EXCEPT ![t] = EnterLoop(c, 1)]
    /\ UNCHANGED <<config, session, ncloses, url, full_url>>
    /\ UNCHANGED <<logvars, runvars>>

(***************************************************************************)
(* The request comes back: with a response or with a transport error.      *)
(***************************************************************************)
Respond(t, r) ==
    /\ calls[t].pc = "request"
    /\ LET c  == calls[t]
           c1 == [c EXCEPT !.open = 0, !.trace = Append(c.trace, AttemptEvent(c, r))]
       IN  calls' = [calls EXCEPT ![t] =
              IF ~Failed(r)
              THEN [c1 EXCEPT !.pc = "returned", !.ret = SuccessOutcome(r)]
              ELSE IF ~Caught(variant, r)
              THEN [c1 EXCEPT !.pc = "raised", !.ret = Propagated(r)]
              ELSE IF SleepsAfter(c.attempt, retry)
              THEN [c1 EXCEPT !.pc = "sleep",
                              !.trace = Append(c1.trace, DelayEvent(c))]
              ELSE [c1 EXCEPT !.pc = "returned",
                              !.ret = FailureOutcome(variant, r)]]
    /\ UNCHANGED <<config, session, heap, ncloses, url, full_url>>
    /\ UNCHANGED <<logvars, runvars>>

(***************************************************************************)
(* The retry delay is over: the loop goes on with the next attempt.        *)
(***************************************************************************)
Wake(t) ==
    /\ calls[t].pc = "sleep"
    /\ calls' = [calls EXCEPT ![t] = EnterLoop(calls[t], calls[t].attempt + 1)]
    /\ UNCHANGED <<config, session, heap, ncloses, url, full_url>>
    /\ UNCHANGED <<logvars, runvars>>

(***************************************************************************)
(* The caller has taken the result (or the exception); its locals are gone.*)
(***************************************************************************)
Finish(t) ==
    /\ Finished(calls[t])
    /\ calls' = [calls EXCEPT ![t] = IdleCall]
    /\ heap' = [heap EXCEPT ![t] = EmptyDict]
    /\ UNCHANGED <<config, session, ncloses, url, full_url>>
    /\ UNCHANGED <<logvars, runvars>>

(***************************************************************************)
(* close(), invoked when no call is in flight.                             *)
(***************************************************************************)
Close ==
    /\ ncloses < MaxCloses
    /\ \A t \in Tasks : ~Active(calls[t])
    /\ session' = SessionClose(session)
    /\ ncloses' = ncloses + 1
    /\ UNCHANGED <<config, heap, calls, url, full_url>>
    /\ UNCHANGED <<logvars, runvars>>

Next ==
    \/ \E t \in Tasks, u \in CallUrls, h \in CallHeaderChoices : Call(t, u, h)
    \/ \E t \in Tasks, r \in Results : Respond(t, r)
    \/ \E t \in Tasks : Wake(t)
    \/ \E t \in Tasks : Finish(t)
    \/ Close

Spec == Init /\ [][Next]_vars

(***************************************************************************)
(* _full_url on its own: clients built with each base URL resolve each URL.*)
(***************************************************************************)
InitUrl ==
    \E v \in {"sync", "async"}, b \in BaseUrls :
        /\ Construct(v, [base_url |-> b, default_headers |-> EmptyDict], 2, 1, TRUE)
        /\ NoLogging
        /\ NoRuns

ResolveUrl(u) ==
    /\ url' = u
    /\ full_url' = FullUrl(base_url, u)
    /\ UNCHANGED <<config, session, heap, calls, ncloses>>
    /\ UNCHANGED <<logvars, runvars>>

NextUrl == \E u \in Urls : ResolveUrl(u)

SpecUrl == InitUrl /\ [][NextUrl]_vars

(***************************************************************************)
(* Reading a call's trace.                                                 *)
(***************************************************************************)
IsAttempt(e) == e.kind = "attempt"

IsDelay(e) == e.kind = "delay"

AttemptsOf(c) == SelectSeq(c.trace, IsAttempt)

DelaysOf(c) == SelectSeq(c.trace, IsDelay)

AllTransport(c) ==
    \A i \in 1 .. Len(c.trace) :
        IsAttempt(c.trace[i]) => c.trace[i].result = TransportError

FailureRecord(c) ==
    /\ c.pc = "returned"
    /\ c.ret.kind = "dict"
    /\ c.ret.success = FALSE
    /\ c.ret.error # ""

(***************************************************************************)
(* C1.  With retry = n >= 0, in either client, a call whose every attempt  *)
(* fails with a transport-level error makes exactly n + 1 attempts, waits  *)
(* retry_delay exactly n times, and returns                                *)
(* {success: false, status_code: null, error: <description>}.              *)
(***************************************************************************)
C1_ExhaustedRetries ==
    \A t \in Tasks :
        LET c == calls[t] IN
        (retry >= 0 /\ Finished(c) /\ AllTransport(c)) =>
            /\ Len(AttemptsOf(c)) = retry + 1
            /\ Len(DelaysOf(c)) = retry
            /\ \A i \in 1 .. Len(c.trace) :
                  IsDelay(c.trace[i]) => c.trace[i].delay = retry_delay
            /\ FailureRecord(c)
            /\ c.ret.status_code = None

C1_Witness ==
    \E t \in Tasks :
        /\ retry = 2
        /\ Finished(calls[t])
        /\ AllTransport(calls[t])
        /\ Len(AttemptsOf(calls[t])) = 3
        /\ Len(DelaysOf(calls[t])) = 2

(***************************************************************************)
(* C2.  A call whose first k attempts (0 <= k <= retry) fail with a        *)
(* transport-level error and whose (k+1)-th attempt gets a successful      *)
(* response makes exactly k + 1 attempts: the call is not over before the  *)
(* (k+1)-th attempt, the successful attempt is the last event of the call, *)
(* and the call returns success = true with the response's status code.    *)
(***************************************************************************)
C2_StopsAtFirstSuccess ==
    \A t \in Tasks :
        LET c == calls[t] IN
        /\ (retry >= 0 /\ Finished(c) /\ AllTransport(c)) =>
              Len(AttemptsOf(c)) = retry + 1
        /\ \A i \in 1 .. Len(c.trace) :
              (IsAttempt(c.trace[i]) /\ ~Failed(c.trace[i].result)) =>
                  /\ i = Len(c.trace)
                  /\ c.trace[i].attempt = Len(AttemptsOf(c))
                  /\ c.pc = "returned"
                  /\ c.ret.kind = "dict"
                  /\ c.ret.success = TRUE
                  /\ c.ret.status_code = c.trace[i].result.status

C2_Witness ==
    \E t \in Tasks :
        LET a == AttemptsOf(calls[t]) IN
        /\ retry = 2
        /\ Len(a) = 3
        /\ a[1].result = TransportError
        /\ a[2].result = TransportError
        /\ a[3].result = Response(200)
        /\ calls[t].ret.success = TRUE

(***************************************************************************)
(* C3.  In both clients an attempt that receives a response with an error  *)
(* status (4xx/5xx) is not retried: it is the last event of its call (no   *)
(* delay and no attempt follows it), so that a call whose first attempt    *)
(* gets such a response makes exactly one attempt.                         *)
(***************************************************************************)
C3_ErrorStatusNotRetried ==
    \A t \in Tasks :
        LET c == calls[t] IN
        \A i \in 1 .. Len(c.trace) :
            (IsAttempt(c.trace[i]) /\ RaisesForStatus(c.trace[i].result)) =>
                /\ i = Len(c.trace)
                /\ Finished(c)

(***************************************************************************)
(* C4.  In both clients, whatever the attempts' results, no call leaves    *)
(* _request by an exception: a failure is reported through the returned    *)
(* record only.                                                            *)
(***************************************************************************)
C4_NoExceptionPropagates ==
    \A t \in Tasks : calls[t].pc # "raised" /\ calls[t].ret.kind # "exception"

C6_FixedDelayBetweenAttempts ==
    \A t \in Tasks :
        LET c == calls[t] IN
        \A i \in 1 .. Len(c.trace) :
            IsDelay(c.trace[i]) =>
                /\ i > 1
                /\ IsAttempt(c.trace[i - 1])
                /\ Failed(c.trace[i - 1].result)
                /\ c.trace[i - 1].attempt < retry + 1
                /\ c.trace[i].delay = retry_delay
                /\ i < Len(c.trace) =>
                      /\ IsAttempt(c.trace[i + 1])
                      /\ c.trace[i + 1].attempt = c.trace[i - 1].attempt + 1
                /\ i = Len(c.trace) =>
                      \/ c.pc = "sleep"
                      \/ c.pc = "request" /\ c.attempt = c.trace[i - 1].attempt + 1

C6_Witness ==
    \E t \in Tasks :
        LET c == calls[t] IN
        /\ retry_delay = 2
        /\ Finished(c)
        /\ Len(DelaysOf(c)) = 2
        /\ Len(AttemptsOf(c)) = 3
        /\ Failed(c.trace[Len(c.trace)].result)

(***************************************************************************)
(* C7.  _full_url, for every base URL and url: an absolute URL comes back  *)
(* unchanged, and a relative path is joined to the configured base URL     *)
(* with exactly one "/" between them; a relative path never comes back     *)
(* verbatim.  (full_url is empty until the first resolution.)              *)
(***************************************************************************)
IsAbsolute(u) ==
    \/ StartsWith(u, <<"h", "t", "t", "p", ":", "/", "/">>)
    \/ StartsWith(u, <<"h", "t", "t", "p", "s", ":", "/", "/">>)

SlashesOnly(s) == \A i \in 1 .. Len(s) : s[i] = "/"

JoinedWithOneSlash(base, u, joined) ==
    \E i \in 0 .. Len(base), j \in 0 .. Len(u) :
        LET b == SubSeq(base, 1, i)
            p == SubSeq(u, j + 1, Len(u))
        IN  /\ SlashesOnly(SubSeq(base, i + 1, Len(base)))
            /\ SlashesOnly(SubSeq(u, 1, j))
            /\ b = <<>> \/ b[Len(b)] # "/"
            /\ p = <<>> \/ p[1] # "/"
            /\ joined = b \o <<"/">> \o p

C7_TargetResolution ==
    full_url # <<>> =>
        IF IsAbsolute(url)
        THEN full_url = url
        ELSE JoinedWithOneSlash(ctor_args.base_url, url, full_url)

(***************************************************************************)
(* C8.  The headers sent on every attempt are the configured default       *)
(* headers overlaid with the per-call headers: every key of either mapping *)
(* is there, a key of both carries the per-call value; and the client's    *)
(* default headers stay what the constructor was given, so that a call     *)
(* without per-call headers sends exactly the original defaults.           *)
(***************************************************************************)
Overlaid(d, h, sent) ==
    /\ DOMAIN sent = DOMAIN d \cup DOMAIN h
    /\ \A k \in DOMAIN h : sent[k] = h[k]
    /\ \A k \in DOMAIN d \ DOMAIN h : sent[k] = d[k]

C8_HeadersOverlaid ==
    /\ heap[default_headers] = ctor_args.default_headers
    /\ \A t \in Tasks :
          LET c == calls[t] IN
          \A i \in 1 .. Len(c.trace) :
              IsAttempt(c.trace[i]) =>
                  /\ Overlaid(ctor_args.default_headers, c.headers,
                              c.trace[i].headers)
                  /\ c.headers = EmptyDict =>
                        c.trace[i].headers = ctor_args.default_headers

C8_Witness ==
    \E t1, t2 \in Tasks :
        /\ ctor_args.default_headers # EmptyDict
        /\ Finished(calls[t1])
        /\ calls[t1].headers # EmptyDict
        /\ Len(AttemptsOf(calls[t1])) = 2
        /\ AttemptsOf(calls[t1])[2].headers["User-Agent"] = "curl"
        /\ calls[t2].headers = EmptyDict
        /\ Len(AttemptsOf(calls[t2])) > 0
        /\ AttemptsOf(calls[t2])[1].headers["User-Agent"] = "MyApp/1.0"

(***************************************************************************)
(* C9.  With session reuse, every attempt of every call goes out on the    *)
(* one session made at construction, and no other connection object is     *)
(* made.  Without it, a connection context of its own is made for each     *)
(* attempt and torn down when the attempt is over: a call of k attempts    *)
(* makes k contexts, and none is open during a delay or once the call has  *)
(* returned or left by an exception.                                       *)
(***************************************************************************)
InFlight(c) == IF c.pc = "request" THEN 1 ELSE 0

C9_ContextPerAttempt ==
    \A t \in Tasks :
        LET c == calls[t] IN
        /\ use_session =>
              /\ session # "None"
              /\ c.opened = 0
              /\ c.open = 0
              /\ c.pc = "request" => c.conn = "session"
              /\ \A i \in 1 .. Len(c.trace) :
                    IsAttempt(c.trace[i]) => c.trace[i].requester = "session"
        /\ ~use_session =>
              /\ c.opened = Len(AttemptsOf(c)) + InFlight(c)
              /\ c.open = InFlight(c)
              /\ \A i \in 1 .. Len(c.trace) :
                    IsAttempt(c.trace[i]) => c.trace[i].requester = "temp"

C9_Witness ==
    \E t \in Tasks :
        /\ ~use_session
        /\ Finished(calls[t])
        /\ calls[t].opened = 3
        /\ calls[t].open = 0

(***************************************************************************)
(* C9 as first stated: without session reuse, one connection context per   *)
(* call (of a call that makes an attempt at all), closed by the time the   *)
(* call returns or leaves by an exception.                                 *)
(***************************************************************************)
C9_OneContextPerCall ==
    \A t \in Tasks :
        LET c == calls[t] IN
        (~use_session /\ Finished(c) /\ Len(AttemptsOf(c)) > 0) =>
            /\ c.opened = 1
            /\ c.open = 0

(***************************************************************************)
(* C10.  The session made at construction stays open, whatever calls are   *)
(* made and however they end, until close() is invoked; close() releases   *)
(* it; a client built without session reuse has no session, before and     *)
(* after close().                                                          *)
(***************************************************************************)
C10_SessionReleasedOnlyByClose ==
    /\ use_session => session = (IF ncloses = 0 THEN "open" ELSE "closed")
    /\ ~use_session => session = "None"

C10_Witness ==
    /\ use_session
    /\ ncloses = 1
    /\ session = "closed"
    /\ \E t1, t2 \in Tasks :
          /\ calls[t1].pc = "returned"
          /\ calls[t1].ret.success = FALSE
          /\ calls[t1].ret.kind = "dict"
          /\ Len(AttemptsOf(calls[t1])) = 3
          /\ calls[t2].pc = "raised"

(***************************************************************************)
(* templates/utils/logging_handler.py.                                     *)
(*                                                                         *)
(* The levels of the logging module and their names.  A level is given to  *)
(* LogHandler as a number or as a name; a name is a string, compared as    *)
(* Python compares strings (character by character, by code point).        *)
(***************************************************************************)
MaxRecords == 2

DEBUG == 10

INFO == 20

WARNING == 30

ERROR == 40

CRITICAL == 50

Levels == {DEBUG, INFO, WARNING, ERROR, CRITICAL}

LevelName(n) ==
    CASE n = DEBUG    -> <<"D", "E", "B", "U", "G">>
      [] n = INFO     -> <<"I", "N", "F", "O">>
      [] n = WARNING  -> <<"W", "A", "R", "N", "I", "N", "G">>
      [] n = ERROR    -> <<"E", "R", "R", "O", "R">>
      [] n = CRITICAL -> <<"C", "R", "I", "T", "I", "C", "A", "L">>

Alphabet ==
    <<"A", "B", "C", "D", "E", "F", "G", "H", "I", "J", "K", "L", "M",
      "N", "O", "P", "Q", "R", "S", "T", "U", "V", "W", "X", "Y", "Z">>

Ord(ch) == 64 + (CHOOSE i \in 1 .. Len(Alphabet) : Alphabet[i] = ch)

RECURSIVE StrLess(_, _)
StrLess(a, b) ==
    IF b = <<>> THEN FALSE
    ELSE IF a = <<>> THEN TRUE
    ELSE IF a[1] = b[1] THEN StrLess(Tail(a), Tail(b))
    ELSE Ord(a[1]) < Ord(b[1])

IntLevel(n) == [form |-> "int", n |-> n, s |-> <<>>]

StrLevel(n) == [form |-> "str", n |-> 0, s |-> LevelName(n)]

LevelArgs == {IntLevel(n) : n \in Levels} \cup {StrLevel(n) : n \in Levels}

\* logging._checkLevel: a number as it is, a name through _nameToLevel.
CheckLevel(a) ==
    IF a.form = "int" THEN a.n ELSE CHOOSE n \in Levels : LevelName(n) = a.s

\* min(level_console, level_file): "<" of two numbers or of two strings;
\* Python raises TypeError for a number against a string.
Comparable(a, b) == a.form = b.form

PyLess(a, b) == IF a.form = "int" THEN a.n < b.n ELSE StrLess(a.s, b.s)

PyMin(a, b) == IF PyLess(b, a) THEN b ELSE a

(***************************************************************************)
(* Sinks and handlers.  "stderr" is logging.lastResort, which a logger     *)
(* without any handler falls back on for WARNING and above.                *)
(***************************************************************************)
Sinks == {"console", "file", "error", "stderr"}

EmptyOut == [k \in Sinks |-> <<>>]

Handler(k, lvl, f) == [sink |-> k, level |-> lvl, filtered |-> f]

\* Faulty variant: the main file handler is left without its filter.
PassesFilterForgotten(h, lvl) == TRUE

\* The filter of the main file handler: lambda record: record.levelno < ERROR
PassesFilter(h, lvl) == h.filtered => lvl < ERROR

\* Logger.callHandlers: every handler whose level the record reaches
\* (and whose filter passes it) emits it.
Deliver(hs, lvl) ==
    IF hs = {}
    THEN (IF lvl >= WARNING THEN {"stderr"} ELSE {})
    ELSE {h.sink : h \in {g \in hs : lvl >= g.level /\ PassesFilter(g, lvl)}}

Entry(id, lvl, what) == [id |-> id, level |-> lvl, what |-> what]

\* Logger.handle(record)
HandleRecord(lg, e) ==
    [lg EXCEPT !.out = [k \in Sinks |->
        IF k \in Deliver(lg.handlers, e.level)
        THEN Append(lg.out[k], e) ELSE lg.out[k]]]

\* Logger.log / debug / ... / error: isEnabledFor(level), then handle.
LoggerLog(lg, e) ==
    IF e.level >= lg.level THEN HandleRecord(lg, e) ELSE lg

AddHandler(lg, h) == [lg EXCEPT !.handlers = lg.handlers \cup {h}]

(***************************************************************************)
(* LogHandler.__init__ and the three _set_..._handler methods.  What the   *)
(* file system does is the environment: faults says which of os.makedirs,  *)
(* the file handler and the error file handler raise.                      *)
(***************************************************************************)
LogParams ==
    [level_console : LevelArgs, level_file : LevelArgs,
     enable_console : BOOLEAN, enable_file : BOOLEAN, detach_error : BOOLEAN]

FaultSets ==
    { {}, {"makedirs"}, {"file"}, {"error_file"}, {"file", "error_file"} }

NoLoggerObject ==
    [params |-> [level_console |-> IntLevel(0), level_file |-> IntLevel(0),
                 enable_console |-> FALSE, enable_file |-> FALSE,
                 detach_error |-> FALSE],
     level |-> 0, handlers |-> {}, out |-> EmptyOut]

SetConsoleHandler(lg) ==
    AddHandler(lg, Handler("console", CheckLevel(lg.params.level_console), FALSE))

SetFileHandler(lg, faults) ==
    IF "file" \in faults
    THEN LoggerLog(lg, Entry(0, ERROR, "file handler failed"))
    ELSE AddHandler(lg, Handler("file", CheckLevel(lg.params.level_file),
                                lg.params.detach_error))

SetErrorFileHandler(lg, faults) ==
    IF "error_file" \in faults
    THEN LoggerLog(lg, Entry(0, ERROR, "error handler failed"))
    ELSE AddHandler(lg, Handler("error", ERROR, FALSE))

LogHandlerInit(p, faults) ==
    IF ~Comparable(p.level_console, p.level_file)
    THEN [end |-> "TypeError", lg |-> NoLoggerObject]
    ELSE LET lg0 == [params |-> p,
                     level |-> CheckLevel(PyMin(p.level_console, p.level_file)),
                     handlers |-> {}, out |-> EmptyOut]
         IN  IF "makedirs" \in faults
             THEN [end |-> "OSError", lg |-> lg0]
             ELSE LET lg1 == IF p.enable_console
                             THEN SetConsoleHandler(lg0) ELSE lg0
                      lg2 == IF p.enable_file
                             THEN SetFileHandler(lg1, faults) ELSE lg1
                      lg3 == IF p.enable_file /\ p.detach_error
                             THEN SetErrorFileHandler(lg2, faults) ELSE lg2
                  IN  [end |-> "built", lg |-> lg3]

HttpUnused ==
    Construct("sync", [base_url |-> <<>>, default_headers |-> EmptyDict],
              2, 1, TRUE)

InitLog == HttpUnused /\ NoLogging /\ NoRuns

\* logger = LogHandler(...), made directly (not through the adapter).
ConstructLogHandler(p, faults) ==
    /\ construction = "none"
    /\ LET b == LogHandlerInit(p, faults) IN
       /\ construction' = b.end
       /\ loggers' = IF b.end = "built" THEN Append(loggers, b.lg) ELSE loggers
    /\ UNCHANGED <<records, wrapper, singleton_logger, adapters, ctors>>
    /\ UNCHANGED <<httpvars, runvars>>

Record(id, lvl, via, tgt, ad, reached) ==
    [id |-> id, level |-> lvl, via |-> via, logger |-> tgt, adapter |-> ad,
     reached |-> reached]

\* logger.debug / info / warning / error / critical of logger i.
Log(i, lvl) ==
    /\ i \in 1 .. Len(loggers)
    /\ Len(records) < MaxRecords
    /\ LET id == Len(records) + 1
           lg == LoggerLog(loggers[i], Entry(id, lvl, "log"))
       IN  /\ loggers' = [loggers EXCEPT ![i] = lg]
           /\ records' = Append(records, Record(id, lvl, "log", i, 0,
                 {k \in Sinks : lg.out[k] # loggers[i].out[k]}))
    /\ UNCHANGED <<construction, wrapper, singleton_logger, adapters, ctors>>
    /\ UNCHANGED <<httpvars, runvars>>

\* logger.handle(record) of logger i, for a record made elsewhere.
Handle(i, lvl) ==
    /\ i \in 1 .. Len(loggers)
    /\ Len(records) < MaxRecords
    /\ LET id == Len(records) + 1
           lg == HandleRecord(loggers[i], Entry(id, lvl, "log"))
       IN  /\ loggers' = [loggers EXCEPT ![i] = lg]
           /\ records' = Append(records, Record(id, lvl, "handle", i, 0,
                 {k \in Sinks : lg.out[k] # loggers[i].out[k]}))
    /\ UNCHANGED <<construction, wrapper, singleton_logger, adapters, ctors>>
    /\ UNCHANGED <<httpvars, runvars>>

NextLog ==
    \/ /\ construction = "none"
       /\ \E p \in LogParams, f \in FaultSets : ConstructLogHandler(p, f)
    \/ \E i \in 1 .. Len(loggers), lvl \in Levels : Log(i, lvl)
    \/ \E i \in 1 .. Len(loggers), lvl \in Levels : Handle(i, lvl)

SpecLog == InitLog /\ [][NextLog]_vars

(***************************************************************************)
(* Claims about LogHandler.                                                *)
(***************************************************************************)
\* The threshold the caller configured for a sink of logger lg.
Threshold(lg, k) ==
    CheckLevel(IF k = "console" THEN lg.params.level_console
               ELSE lg.params.level_file)

LoggedThrough(i) ==
    {j \in 1 .. Len(records) :
        records[j].via = "log" /\ records[j].logger = i}

\* C11: with error separation disabled, whatever the two thresholds are and
\* however they are given (numbers or names), a record logged through the
\* logger appears in the output of a sink exactly when its level is at or
\* above the threshold configured for that sink.
C11_SinkThresholds ==
    \A i \in 1 .. Len(loggers) :
        ~loggers[i].params.detach_error =>
            \A j \in LoggedThrough(i), h \in loggers[i].handlers :
                (h.sink \in records[j].reached)
                    <=> (records[j].level >= Threshold(loggers[i], h.sink))

HasSink(lg, k) == \E h \in lg.handlers : h.sink = k

Written(lg, k, id) == \E n \in 1 .. Len(lg.out[k]) : lg.out[k][n].id = id

\* The records that reached Logger.handle of logger i: those given to
\* handle directly and those logged at or above the logger's own level.
HandledBy(i) ==
    {j \in 1 .. Len(records) :
        /\ records[j].logger = i
        /\ records[j].via \in {"log", "handle"}
        /\ (records[j].via = "log" => records[j].level >= loggers[i].level)}

Separating(lg) ==
    /\ lg.params.enable_file
    /\ lg.params.detach_error
    /\ HasSink(lg, "file")
    /\ HasSink(lg, "error")

\* C12: with file output and error separation enabled (both file sinks set
\* up), every record handled by the logger at ERROR or above is written to
\* the error file and not to the main file; every handled record below ERROR
\* is not written to the error file, and is written to the main file exactly
\* when it is at or above the file threshold.  So none is in both files.
C12_ErrorSeparation ==
    \A i \in 1 .. Len(loggers) :
        Separating(loggers[i]) =>
            \A j \in HandledBy(i) :
                IF records[j].level >= ERROR
                THEN /\ Written(loggers[i], "error", j)
                     /\ ~Written(loggers[i], "file", j)
                ELSE /\ ~Written(loggers[i], "error", j)
                     /\ Written(loggers[i], "file", j)
                            <=> records[j].level >= Threshold(loggers[i], "file")

C12_Witness ==
    \E i \in 1 .. Len(loggers) :
        /\ Separating(loggers[i])
        /\ \E j, k \in HandledBy(i) :
              /\ records[j].level >= ERROR
              /\ Written(loggers[i], "error", j)
              /\ records[k].level < ERROR
              /\ Written(loggers[i], "file", k)

\* C13: a failure while setting up the log directory or a sink never makes
\* the construction of a LogHandler raise: construction completes.
C13_ConstructionNeverRaises == construction # "OSError"

(***************************************************************************)
(* LoggerExtension.catch: the wrapper around a decorated callable.         *)
(*                                                                         *)
(* The callable either returns a value or raises; the error callback is    *)
(* absent, returns, or raises itself.  events lists what the wrapper did,  *)
(* propagated says which exception left it ("none", "original" for the     *)
(* callable's, "callback" for one raised by on_error), result what it      *)
(* returned.                                                               *)
(***************************************************************************)
Callbacks == {"absent", "returns", "raises"}

\* if on_error: on_error(e)
CallsBack(cb) == cb # "absent"

\* Faulty variant: the exception is re-raised whatever the flag says.
ReraisesAlways(rr) == TRUE

\* if reraise: raise
Reraises(rr) == rr

\* Faulty variant: the callback is invoked before the exception is logged.
WrapperOutcomeCallbackFirst(rr, cb, raises) ==
    IF ~raises
    THEN [events |-> <<"func">>, propagated |-> "none",
          result |-> "returned value"]
    ELSE IF CallsBack(cb) /\ cb = "raises"
    THEN [events |-> <<"func", "on_error">>, propagated |-> "callback",
          result |-> "no return"]
    ELSE [events |-> <<"func">>
                     \o (IF CallsBack(cb) THEN <<"on_error">> ELSE <<>>)
                     \o <<"log">>
                     \o (IF Reraises(rr) THEN <<"raise">> ELSE <<>>),
          propagated |-> IF Reraises(rr) THEN "original" ELSE "none",
          result |-> IF Reraises(rr) THEN "no return" ELSE "returned None"]

WrapperOutcome(rr, cb, raises) ==
    IF ~raises
    THEN [events |-> <<"func">>, propagated |-> "none",
          result |-> "returned value"]
    ELSE IF CallsBack(cb) /\ cb = "raises"
    THEN [events |-> <<"func", "log", "on_error">>, propagated |-> "callback",
          result |-> "no return"]
    ELSE [events |-> <<"func", "log">>
                     \o (IF CallsBack(cb) THEN <<"on_error">> ELSE <<>>)
                     \o (IF Reraises(rr) THEN <<"raise">> ELSE <<>>),
          propagated |-> IF Reraises(rr) THEN "original" ELSE "none",
          result |-> IF Reraises(rr) THEN "no return" ELSE "returned None"]

\* One call of a callable decorated with logger.catch(level, reraise,
\* on_error), logger being loggers[i].
WrapperCall(i, lvl, rr, cb, raises) ==
    /\ wrapper.pc = "none"
    /\ i \in 1 .. Len(loggers)
    /\ LET o == WrapperOutcome(rr, cb, raises)
           id == Len(records) + 1
           lg == LoggerLog(loggers[i], Entry(id, lvl, "catch"))
       IN  /\ wrapper' = [pc |-> "done", logger |-> i, level |-> lvl,
                          reraise |-> rr, on_error |-> cb,
                          func_raises |-> raises, events |-> o.events,
                          propagated |-> o.propagated, result |-> o.result]
           /\ IF raises
              THEN /\ loggers' = [loggers EXCEPT ![i] = lg]
                   /\ records' = Append(records, Record(id, lvl, "catch", i, 0,
                         {k \in Sinks : lg.out[k] # loggers[i].out[k]}))
              ELSE UNCHANGED <<loggers, records>>
    /\ UNCHANGED <<construction, singleton_logger, adapters, ctors>>
    /\ UNCHANGED <<httpvars, runvars>>

NextCatch ==
    \/ /\ construction = "none"
       /\ \E p \in LogParams, f \in FaultSets : ConstructLogHandler(p, f)
    \/ \E i \in 1 .. Len(loggers), lvl \in Levels, rr \in BOOLEAN,
          cb \in Callbacks, raises \in BOOLEAN :
              WrapperCall(i, lvl, rr, cb, raises)

SpecCatch == InitLog /\ [][NextCatch]_vars

(***************************************************************************)
(* Claims about the catch decorator.                                       *)
(***************************************************************************)
CallableRaised == wrapper.pc = "done" /\ wrapper.func_raises

CountOf(ev) ==
    Cardinality({n \in 1 .. Len(wrapper.events) : wrapper.events[n] = ev})

CatchRecords == {j \in 1 .. Len(records) : records[j].via = "catch"}

EntriesOf(lg, k, id) ==
    Cardinality({n \in 1 .. Len(lg.out[k]) : lg.out[k][n].id = id})

\* The wrapper called logger.log once for the exception, and no sink holds
\* more than one entry for it.
LoggedOnce ==
    /\ CountOf("log") = 1
    /\ Cardinality(CatchRecords) = 1
    /\ \A j \in CatchRecords :
          /\ records[j].level = wrapper.level
          /\ records[j].logger = wrapper.logger
          /\ \A k \in Sinks : EntriesOf(loggers[wrapper.logger], k, j) <= 1

SuppressedOrReraised ==
    IF wrapper.reraise
    THEN wrapper.propagated = "original"
    ELSE wrapper.propagated = "none" /\ wrapper.result = "returned None"

C15_NeverDroppedUnlogged ==
    (CallableRaised /\ ~wrapper.reraise /\ wrapper.propagated = "none") =>
        \E j \in CatchRecords, k \in Sinks :
            Written(loggers[wrapper.logger], k, j)

(***************************************************************************)
(* AdvancedLogHandler: a logging.Handler that forwards to one LogHandler   *)
(* kept in the class attribute _singleton_logger.  singleton_logger is 0   *)
(* for None, else the index of the logger in loggers.  An adapter keeps    *)
(* its own handler level and its _logger; args records the arguments it    *)
(* was constructed with (the object itself does not keep them).            *)
(***************************************************************************)
MaxAdapters == 2

MaxEmits == 1

AdvParams ==
    [level_console : {StrLevel(WARNING), IntLevel(INFO)},
     level_file : {StrLevel(DEBUG), StrLevel(ERROR)},
     enable_console : {TRUE}, enable_file : {TRUE}, detach_error : BOOLEAN]

\* Faulty variant: the handler level is never set (NOTSET).
AdapterLevelNotSet(p) == 0

\* self.setLevel(level_file)
AdapterLevel(p) == CheckLevel(p.level_file)

\* Faulty variant: a new LogHandler is made by every construction.
SingletonMissingAlways(sl) == TRUE

\* if not AdvancedLogHandler._singleton_logger
SingletonMissing(sl) == sl = 0

Adapter(lvl, lg, p) == [level |-> lvl, logger |-> lg, args |-> p]

\* AdvancedLogHandler(**p), run from start to end with no other
\* construction in between.
AdvConstruct(p, faults) ==
    /\ Len(adapters) < MaxAdapters
    /\ IF SingletonMissing(singleton_logger)
       THEN LET b == LogHandlerInit(p, faults) IN
            IF b.end = "built"
            THEN /\ loggers' = Append(loggers, b.lg)
                 /\ singleton_logger' = Len(loggers) + 1
                 /\ adapters' = Append(adapters,
                        Adapter(AdapterLevel(p), Len(loggers) + 1, p))
                 /\ construction' = "built"
            ELSE /\ construction' = b.end
                 /\ UNCHANGED <<loggers, singleton_logger, adapters>>
       ELSE /\ adapters' = Append(adapters,
                   Adapter(AdapterLevel(p), singleton_logger, p))
            /\ construction' = "built"
            /\ UNCHANGED <<loggers, singleton_logger>>
    /\ UNCHANGED <<records, wrapper, ctors>>
    /\ UNCHANGED <<httpvars, runvars>>

\* adapter.emit(record): self._logger.handle(record)
Emit(a, lvl) ==
    /\ a \in 1 .. Len(adapters)
    /\ Len(records) < MaxEmits
    /\ LET i == adapters[a].logger
           id == Len(records) + 1
           lg == HandleRecord(loggers[i], Entry(id, lvl, "log"))
       IN  /\ loggers' = [loggers EXCEPT ![i] = lg]
           /\ records' = Append(records, Record(id, lvl, "emit", i, a,
                 {k \in Sinks : lg.out[k] # loggers[i].out[k]}))
    /\ UNCHANGED <<construction, wrapper, singleton_logger, adapters, ctors>>
    /\ UNCHANGED <<httpvars, runvars>>

\* A logger that has adapter a among its handlers logs a record
\* (dictConfig with AdvancedLogHandler as a handler class): callHandlers
\* passes it to the adapter when it reaches the adapter's own level.
Dispatch(a, lvl) ==
    /\ a \in 1 .. Len(adapters)
    /\ Len(records) < MaxEmits
    /\ LET i == adapters[a].logger
           id == Len(records) + 1
           lg == IF lvl >= adapters[a].level
                 THEN HandleRecord(loggers[i], Entry(id, lvl, "log"))
                 ELSE loggers[i]
       IN  /\ loggers' = [loggers EXCEPT ![i] = lg]
           /\ records' = Append(records, Record(id, lvl, "dispatch", i, a,
                 {k \in Sinks : lg.out[k] # loggers[i].out[k]}))
    /\ UNCHANGED <<construction, wrapper, singleton_logger, adapters, ctors>>
    /\ UNCHANGED <<httpvars, runvars>>

NextAdv ==
    \/ /\ Len(adapters) < MaxAdapters
       /\ \E p \in AdvParams, f \in {{}, {"makedirs"}} : AdvConstruct(p, f)
    \/ \E a \in 1 .. Len(adapters), lvl \in Levels : Emit(a, lvl)
    \/ \E a \in 1 .. Len(adapters), lvl \in Levels : Dispatch(a, lvl)

SpecAdv == InitLog /\ [][NextAdv]_vars

(***************************************************************************)
(* Claims about AdvancedLogHandler.                                        *)
(***************************************************************************)
\* C16: after any sequence of constructions at most one LogHandler exists;
\* it was built from the parameters of the first adapter constructed, its
\* sinks and thresholds are the ones those parameters give, and every
\* adapter's _logger is that instance.  (A construction that raises makes
\* neither an adapter nor a logger.)
C16_SingleLogger ==
    /\ Len(loggers) <= 1
    /\ singleton_logger = Len(loggers)
    /\ adapters # <<>> =>
          /\ Len(loggers) = 1
          /\ \A a \in 1 .. Len(adapters) : adapters[a].logger = singleton_logger
          /\ loggers[1].params = adapters[1].args
          /\ loggers[1].level = LogHandlerInit(adapters[1].args, {}).lg.level
          /\ loggers[1].handlers = LogHandlerInit(adapters[1].args, {}).lg.handlers

C16_Witness ==
    /\ Len(adapters) >= 2
    /\ adapters[2].args # adapters[1].args
    /\ adapters[2].logger = 1
    /\ loggers[1].params = adapters[1].args

\* The sinks a record of level lvl reaches when the first adapter emits it.
ThroughFirst(lvl) == Deliver(loggers[adapters[1].logger].handlers, lvl)

\* The sinks it reaches when a logger holding the first adapter logs it.
DispatchedThroughFirst(lvl) ==
    IF lvl >= adapters[1].level THEN ThroughFirst(lvl) ELSE {}

LaterRecords == {j \in 1 .. Len(records) : records[j].adapter > 1}

\* C17 as stated: the parameters of a later construction are ignored; a
\* record sent through a later adapter reaches exactly the sinks it reaches
\* through the first adapter.
C17_LaterParametersIgnored ==
    \A j \in LaterRecords :
        records[j].reached =
            IF records[j].via = "emit" THEN ThroughFirst(records[j].level)
            ELSE DispatchedThroughFirst(records[j].level)

\* C17 amended: every adapter forwards to the first adapter's logger, so
\* emit() of a later adapter reaches the sinks emit() of the first one
\* reaches; but level_file of the later construction is not ignored, it is
\* that adapter's own handler level: a record a logger dispatches to it is
\* forwarded only at or above that level, and reaches nothing below it.
C17_LaterAdapterOwnLevel ==
    \A j \in LaterRecords :
        LET a == records[j].adapter IN
        /\ adapters[a].logger = adapters[1].logger
        /\ records[j].reached =
              IF records[j].via = "dispatch"
                    /\ records[j].level < CheckLevel(adapters[a].args.level_file)
              THEN {}
              ELSE ThroughFirst(records[j].level)

C17_Witness ==
    \E j \in LaterRecords :
        /\ records[j].via = "dispatch"
        /\ adapters[records[j].adapter].args.level_file
              # adapters[1].args.level_file
        /\ records[j].reached = {}
        /\ DispatchedThroughFirst(records[j].level) # {}

(***************************************************************************)
(* Claims about the two concurrency models of the HTTP clients.            *)
(***************************************************************************)
\* Task o can take its next step in this state.
CanStep(o) ==
    /\ (calls[o].pc = "idle" /\ ncloses = 0) =>
          \A u \in CallUrls, h \in CallHeaderChoices : ENABLED Call(o, u, h)
    /\ calls[o].pc = "request" => \A r \in Results : ENABLED Respond(o, r)
    /\ calls[o].pc = "sleep" => ENABLED Wake(o)
    /\ Finished(calls[o]) => ENABLED Finish(o)

\* Nothing else is in progress and nothing else can start.
NothingElse(t) ==
    \A o \in Tasks \ {t} :
        /\ calls[o].pc = "idle"
        /\ \A u \in CallUrls, h \in CallHeaderChoices : ~ENABLED Call(o, u, h)

\* C18: while a call of the async client waits for its attempt or for its
\* retry delay, every other task can take its next step (start a call on
\* the same client, get its response, end its delay, return); while a call
\* of the sync client is between its start and its return, delays included,
\* no other call is in progress and none can start.
C18_AsyncInterleavesSyncBlocks ==
    \A t \in Tasks :
        Active(calls[t]) =>
            IF variant = "async"
            THEN \A o \in Tasks \ {t} : CanStep(o)
            ELSE NothingElse(t)

C18_Witness ==
    /\ variant = "async"
    /\ calls[1].pc = "sleep"
    /\ calls[2].pc = "request"
    /\ CanStep(1) /\ CanStep(2)

\* C19: whatever retry the client was configured with (negative values
\* included), every call that returns has made at least one attempt and
\* hands back an outcome record, never None.
C19_AlwaysOutcomeRecord ==
    \A t \in Tasks :
        calls[t].pc = "returned" =>
            /\ calls[t].ret.kind = "dict"
            /\ calls[t].ret # ReturnedNone
            /\ Len(AttemptsOf(calls[t])) >= 1

(***************************************************************************)
(* The two clients side by side: a sync and an async client configured     *)
(* alike (retry, retry_delay) make the same call, and the server answers   *)
(* both with the same results, attempt by attempt (script[a] is the result *)
(* of attempt a).  RunCall is _request run from start to end.              *)
(***************************************************************************)
RECURSIVE Loop(_, _, _, _, _, _)
Loop(v, n, d, rs, a, run) ==
    IF ~InRange(a, n)
    THEN [run EXCEPT !.pc = "returned", !.ret = ReturnedNone]
    ELSE LET r == rs[a]
             run1 == [run EXCEPT !.attempts = a]
         IN  IF ~Failed(r)
             THEN [run1 EXCEPT !.pc = "returned", !.ret = SuccessOutcome(r)]
             ELSE IF ~Caught(v, r)
             THEN [run1 EXCEPT !.pc = "raised", !.ret = Propagated(r)]
             ELSE IF SleepsAfter(a, n)
             THEN Loop(v, n, d, rs, a + 1,
                       [run1 EXCEPT !.delays = Append(@, SleepDuration(d, a))])
             ELSE [run1 EXCEPT !.pc = "returned",
                               !.ret = FailureOutcome(v, r)]

RunCall(v, n, d, rs) == Loop(v, n, d, rs, 1, NoRun)

Scripts == [1 .. MaxRetry + 1 -> Results]

InitPair ==
    /\ \E n \in Retries, d \in RetryDelays :
          Construct("sync", [base_url |-> <<>>, default_headers |-> EmptyDict],
                    n, d, TRUE)
    /\ NoLogging
    /\ NoRuns

\* What the server will answer, attempt by attempt.
Script(rs) ==
    /\ script = <<>>
    /\ script' = rs
    /\ UNCHANGED <<run_sync, run_async>>
    /\ UNCHANGED <<httpvars, logvars>>

RunSync ==
    /\ script # <<>>
    /\ run_sync.pc = "idle"
    /\ run_sync' = RunCall("sync", retry, retry_delay, script)
    /\ UNCHANGED <<script, run_async>>
    /\ UNCHANGED <<httpvars, logvars>>

RunAsync ==
    /\ script # <<>>
    /\ run_async.pc = "idle"
    /\ run_async' = RunCall("async", retry, retry_delay, script)
    /\ UNCHANGED <<script, run_sync>>
    /\ UNCHANGED <<httpvars, logvars>>

NextPair ==
    \/ /\ script = <<>>
       /\ \E rs \in Scripts : Script(rs)
    \/ RunSync
    \/ RunAsync

SpecPair == InitPair /\ [][NextPair]_vars

\* C20: configured alike and given the same results attempt by attempt, the
\* sync and the async client make the same number of attempts and the same
\* delays and end the call the same way (both return, or both raise), with
\* outcomes that agree on the success flag.
C20_SyncAsyncIdentical ==
    (run_sync.pc # "idle" /\ run_async.pc # "idle") =>
        /\ run_sync.attempts = run_async.attempts
        /\ run_sync.delays = run_async.delays
        /\ run_sync.pc = run_async.pc
        /\ run_sync.ret.success = run_async.ret.success

(***************************************************************************)
(* AdvancedLogHandler.__init__ run by several threads at once.  Nothing in *)
(* it takes a lock, so another thread can run between any two of its       *)
(* statements: the test of _singleton_logger, the LogHandler(...) call,    *)
(* the store into _singleton_logger, and the read for self._logger.        *)
(***************************************************************************)
InProgress == {t \in Threads : ctors[t].pc # "idle"}

\* super().__init__(); self.setLevel(level_file);
\* if not AdvancedLogHandler._singleton_logger
AdvBegin(t, p) ==
    /\ ctors[t].pc = "idle"
    /\ Len(adapters) + Cardinality(InProgress) < MaxAdapters
    /\ ctors' = [ctors EXCEPT ![t] =
          [pc |-> IF SingletonMissing(singleton_logger)
                  THEN "create" ELSE "assign",
           args |-> p, level |-> AdapterLevel(p), made |-> 0]]
    /\ UNCHANGED <<loggers, construction, records, wrapper, singleton_logger,
                   adapters>>
    /\ UNCHANGED <<httpvars, runvars>>

\* LogHandler(name=name, ..., fmt_file=fmt_file)
AdvCreate(t, faults) ==
    /\ ctors[t].pc = "create"
    /\ LET b == LogHandlerInit(ctors[t].args, faults) IN
       /\ construction' = b.end
       /\ IF b.end = "built"
          THEN /\ loggers' = Append(loggers, b.lg)
               /\ ctors' = [ctors EXCEPT ![t].pc = "store",
                                         ![t].made = Len(loggers) + 1]
          ELSE /\ ctors' = [ctors EXCEPT ![t] = IdleCtor]
               /\ UNCHANGED loggers
    /\ UNCHANGED <<records, wrapper, singleton_logger, adapters>>
    /\ UNCHANGED <<httpvars, runvars>>

\* AdvancedLogHandler._singleton_logger = <the LogHandler just made>
AdvStore(t) ==
    /\ ctors[t].pc = "store"
    /\ singleton_logger' = ctors[t].made
    /\ ctors' = [ctors EXCEPT ![t].pc = "assign"]
    /\ UNCHANGED <<loggers, construction, records, wrapper, adapters>>
    /\ UNCHANGED <<httpvars, runvars>>

\* self._logger = AdvancedLogHandler._singleton_logger
AdvAssign(t) ==
    /\ ctors[t].pc = "assign"
    /\ adapters' = Append(adapters,
          Adapter(ctors[t].level, singleton_logger, ctors[t].args))
    /\ ctors' = [ctors EXCEPT ![t] = IdleCtor]
    /\ construction' = "built"
    /\ UNCHANGED <<loggers, records, wrapper, singleton_logger>>
    /\ UNCHANGED <<httpvars, runvars>>

NextRace ==
    \/ \E t \in Threads, p \in AdvParams : AdvBegin(t, p)
    \/ \E t \in Threads, f \in {{}, {"makedirs"}} : AdvCreate(t, f)
    \/ \E t \in Threads : AdvStore(t)
    \/ \E t \in Threads : AdvAssign(t)
    \/ \E a \in 1 .. Len(adapters), lvl \in Levels : Emit(a, lvl)

SpecRace == InitLog /\ [][NextRace]_vars

\* C21: however the constructions of several threads interleave, at most
\* one LogHandler is created and all the adapters share that one instance.
C21_OneLoggerInEveryInterleaving ==
    /\ Len(loggers) <= 1
    /\ \A a, b \in 1 .. Len(adapters) : adapters[a].logger = adapters[b].logger

(***************************************************************************)
(* The order of the steps of the catch wrapper.                            *)
(***************************************************************************)
\* Every ev1 among the wrapper's steps comes before every ev2.
Before(ev1, ev2) ==
    \A m, n \in 1 .. Len(wrapper.events) :
        (wrapper.events[m] = ev1 /\ wrapper.events[n] = ev2) => m < n

\* Logged once, then the callback once if there is one, in this order.
LoggedThenCalledBack ==
    /\ CountOf("func") = 1
    /\ CountOf("log") = 1
    /\ CountOf("on_error") = (IF wrapper.on_error = "absent" THEN 0 ELSE 1)
    /\ CountOf("raise") <= 1
    /\ Before("func", "log")
    /\ Before("log", "on_error")
    /\ Before("log", "raise")
    /\ Before("on_error", "raise")

\* The last step: the exception re-raised or suppressed as reraise says.
EndsPerFlag ==
    /\ CountOf("raise") = (IF wrapper.reraise THEN 1 ELSE 0)
    /\ SuppressedOrReraised

ReturnedNormally ==
    /\ wrapper.events = <<"func">>
    /\ CatchRecords = {}
    /\ wrapper.propagated = "none"
    /\ wrapper.result = "returned value"

====
